---- MODULE Spec2Model ----
(***************************************************************************)
(* Model of src/data_utils.py: the indicator engine                        *)
(* (get_enhanced_technical_indicators) and the three snapshot functions    *)
(* get_clean_market_data, get_clean_fundamental_data and                   *)
(* get_market_environment_data, each run against a data provider whose     *)
(* answers (a frame, an empty frame, an exception) are the inputs.         *)
(*                                                                         *)
(* Numbers.  A pandas float is a record [k, n, d]: k = "num" is the        *)
(* rational n/d (d > 0, lowest terms), k = "nan" is NaN and k = "inf" is   *)
(* an infinity of sign n.  Arithmetic is exact; binary rounding error of   *)
(* the floats is not modelled.  The square root of the rolling standard    *)
(* deviation and the exponential averages are carried in fixed point.      *)
(* A formatted string is a record [fmt, val]: fmt names the format         *)
(* ("N/A", ".2f", ".4f", "str%", ...), val the printed digits as an        *)
(* integer count of the last printed decimal place.                        *)
(***************************************************************************)
EXTENDS Integers, Sequences, FiniteSets, TLC

(***************************************************************************)
(* Bounds of the model                                                     *)
(***************************************************************************)
\* longest daily series the provider returns
MaxBars == 21
\* most records an hk_indicator frame holds
MaxInd == 2

(***************************************************************************)
(* Program constants                                                       *)
(***************************************************************************)
W5 == 5
W10 == 10
W20 == 20
RsiWindow == 14
Span12 == 12
Span26 == 26
Span9 == 9
BBK == 2

(***************************************************************************)
(* Floats                                                                  *)
(***************************************************************************)
Abs(x) == IF x < 0 THEN -x ELSE x

RECURSIVE GCD(_, _)
GCD(a, b) == IF b = 0 THEN a ELSE GCD(b, a % b)

NaN == [k |-> "nan", n |-> 0, d |-> 1]
Inf(s) == [k |-> "inf", n |-> s, d |-> 1]

\* the rational n/d in lowest terms, d # 0
Num(n, d) ==
    LET s == IF d < 0 THEN -1 ELSE 1
        g == GCD(Abs(n), Abs(d))
    IN  [k |-> "num", n |-> (s * n) \div g, d |-> (s * d) \div g]

Flt(n) == [k |-> "num", n |-> n, d |-> 1]

\* pd.notna
notna(x) == x.k # "nan"
Sign(n) == IF n < 0 THEN -1 ELSE IF n > 0 THEN 1 ELSE 0

FNeg(a) ==
    IF a.k = "nan" THEN NaN
    ELSE IF a.k = "inf" THEN Inf(-a.n)
    ELSE Num(-a.n, a.d)

FAdd(a, b) ==
    IF a.k = "nan" \/ b.k = "nan" THEN NaN
    ELSE IF a.k = "inf" /\ b.k = "inf" THEN (IF a.n = b.n THEN a ELSE NaN)
    ELSE IF a.k = "inf" THEN a
    ELSE IF b.k = "inf" THEN b
    ELSE IF a.d = 1 /\ b.d = 1 THEN Flt(a.n + b.n)
    ELSE Num(a.n * b.d + b.n * a.d, a.d * b.d)

FSub(a, b) == FAdd(a, FNeg(b))

FMul(a, b) ==
    IF a.k = "nan" \/ b.k = "nan" THEN NaN
    ELSE IF a.k = "inf" \/ b.k = "inf"
         THEN (IF a.n = 0 \/ b.n = 0 THEN NaN ELSE Inf(Sign(a.n) * Sign(b.n)))
    ELSE Num(a.n * b.n, a.d * b.d)

\* a mutant of FDiv: a division by zero is a fault surfaced as NaN
FDivZeroIsNaN(a, b) ==
    IF a.k = "nan" \/ b.k = "nan" THEN NaN
    ELSE IF a.k = "inf" /\ b.k = "inf" THEN NaN
    ELSE IF a.k = "inf" THEN Inf(a.n * (IF b.n < 0 THEN -1 ELSE 1))
    ELSE IF b.k = "inf" THEN Flt(0)
    ELSE IF b.n = 0 THEN NaN
    ELSE Num(a.n * b.d, a.d * b.n)

\* float division as numpy does it: x/0 is an infinity, 0/0 is NaN
FDiv(a, b) ==
    IF a.k = "nan" \/ b.k = "nan" THEN NaN
    ELSE IF a.k = "inf" /\ b.k = "inf" THEN NaN
    ELSE IF a.k = "inf" THEN Inf(a.n * (IF b.n < 0 THEN -1 ELSE 1))
    ELSE IF b.k = "inf" THEN Flt(0)
    ELSE IF b.n = 0 THEN (IF a.n = 0 THEN NaN ELSE Inf(Sign(a.n)))
    ELSE Num(a.n * b.d, a.d * b.n)

\* a > b; every comparison with NaN is false
FGt(a, b) ==
    /\ a.k # "nan" /\ b.k # "nan"
    /\ IF a.k = "inf" THEN a.n = 1 /\ ~(b.k = "inf" /\ b.n = 1)
       ELSE IF b.k = "inf" THEN b.n = -1
       ELSE a.n * b.d > b.n * a.d

FLt(a, b) == FGt(b, a)

\* a \div b rounded to the nearest integer, ties to even (b > 0)
RoundDiv(a, b) ==
    LET q == a \div b
        r == a % b
    IN  IF 2 * r < b THEN q
        ELSE IF 2 * r > b THEN q + 1
        ELSE IF q % 2 = 0 THEN q ELSE q + 1

RECURSIVE ISqrtIter(_, _)
ISqrtIter(x, r) ==
    LET r2 == (r + x \div r) \div 2
    IN  IF r2 >= r THEN r ELSE ISqrtIter(x, r2)

\* the integer square root of x >= 0
ISqrt(x) == IF x = 0 THEN 0 ELSE ISqrtIter(x, x)

(***************************************************************************)
(* Formatted strings                                                       *)
(***************************************************************************)
NA == [fmt |-> "N/A", val |-> 0]

\* f"{x:.2f}"
F2(x) ==
    IF x.k = "nan" THEN [fmt |-> "nan", val |-> 0]
    ELSE IF x.k = "inf" THEN [fmt |-> "inf", val |-> x.n]
    ELSE [fmt |-> ".2f", val |-> RoundDiv(x.n * 100, x.d)]

\* f"{x:.4f}"
F4(x) ==
    IF x.k = "nan" THEN [fmt |-> "nan", val |-> 0]
    ELSE IF x.k = "inf" THEN [fmt |-> "inf", val |-> x.n]
    ELSE [fmt |-> ".4f", val |-> RoundDiv(x.n * 10000, x.d)]

\* f"{x:.2f}" if pd.notna(x) else "N/A"
F2orNA(x) == IF notna(x) THEN F2(x) ELSE NA
F4orNA(x) == IF notna(x) THEN F4(x) ELSE NA

(***************************************************************************)
(* Frames: a frame is a sequence of rows (records); iloc[0] is row 1 and   *)
(* iloc[-1] the last row.  trade_date is a day number.                     *)
(***************************************************************************)
RECURSIVE InsertRow(_, _)
\* the date-ascending frame s with row r put in its place
InsertRow(s, r) ==
    IF Len(s) = 0 \/ s[Len(s)].trade_date <= r.trade_date THEN Append(s, r)
    ELSE IF r.trade_date < s[1].trade_date THEN <<r>> \o s
    ELSE Append(InsertRow(SubSeq(s, 1, Len(s) - 1), r), s[Len(s)])

RECURSIVE SortAsc(_, _)
\* the first n rows of df, date-ascending
SortAsc(df, n) == IF n = 0 THEN <<>> ELSE InsertRow(SortAsc(df, n - 1), df[n])

\* df.sort_values('trade_date', ascending=asc).reset_index(drop=True)
sort_values(df, asc) ==
    LET s == SortAsc(df, Len(df))
        n == Len(s)
    IN  IF asc THEN s ELSE [i \in 1..n |-> s[n + 1 - i]]

empty(df) == Len(df) = 0

(***************************************************************************)
(* Rolling windows                                                         *)
(***************************************************************************)
RECURSIVE SumInt(_, _, _)
\* xs[lo] + ... + xs[hi] of an integer column
SumInt(xs, lo, hi) == IF lo > hi THEN 0 ELSE xs[hi] + SumInt(xs, lo, hi - 1)

RECURSIVE SumSq(_, _, _)
SumSq(xs, lo, hi) == IF lo > hi THEN 0 ELSE xs[hi] * xs[hi] + SumSq(xs, lo, hi - 1)

RECURSIVE FSum(_, _, _)
\* xs[lo] + ... + xs[hi] of a float column
FSum(xs, lo, hi) == IF lo > hi THEN Flt(0) ELSE FAdd(xs[hi], FSum(xs, lo, hi - 1))

\* a mutant of RollingMean: min_periods=1, the mean of the bars there are
RollingMeanMinPeriods1(xs, w, i) ==
    LET lo == IF i < w THEN 1 ELSE i - w + 1
    IN  FDiv(FSum(xs, lo, i), Flt(i - lo + 1))

\* xs.rolling(window=w).mean() at row i: NaN unless the window holds w values
RollingMean(xs, w, i) ==
    IF i < w \/ \E j \in (i - w + 1)..i : ~notna(xs[j]) THEN NaN
    ELSE FDiv(FSum(xs, i - w + 1, i), Flt(w))

\* xs.rolling(window=w).std() at row i of an integer column: the sample
\* (ddof=1) deviation, its square root carried to two decimals
RollingStd(xs, w, i) ==
    IF i < w THEN NaN
    ELSE LET s  == SumInt(xs, i - w + 1, i)
             s2 == SumSq(xs, i - w + 1, i)
             nv == w * s2 - s * s
         IN  Num(ISqrt((nv * 10000) \div (w * (w - 1))), 100)

RECURSIVE Ewm(_, _, _)
\* xs.ewm(span=span, adjust=False).mean(), rows 1..i, xs and the result in
\* units of 1/10000: y[1] = x[1], y[t] = ((span-1) y[t-1] + 2 x[t]) / (span+1)
Ewm(xs, span, i) ==
    IF i = 0 THEN <<>>
    ELSE IF i = 1 THEN <<xs[1]>>
    ELSE LET y == Ewm(xs, span, i - 1)
         IN  Append(y, RoundDiv((span - 1) * y[i - 1] + 2 * xs[i], span + 1))

(***************************************************************************)
(* get_enhanced_technical_indicators                                       *)
(***************************************************************************)
\* close.diff(): NaN on the first row
diff(close, i) == IF i = 1 THEN NaN ELSE Flt(close[i] - close[i - 1])

\* x.where(cond, other) for one element: x where cond holds, other elsewhere
where(x, cond, other) == IF cond THEN x ELSE other

\* (delta.where(delta > 0, 0)) per row
gainCol(close) ==
    [i \in 1..Len(close) |->
        LET dl == diff(close, i) IN where(dl, FGt(dl, Flt(0)), Flt(0))]

\* (-delta.where(delta < 0, 0)) per row
lossCol(close) ==
    [i \in 1..Len(close) |->
        LET dl == diff(close, i) IN FNeg(where(dl, FLt(dl, Flt(0)), Flt(0)))]

\* rs = gain / loss; 100 - (100 / (1 + rs))
rsiOf(gain, loss) ==
    LET rs == FDiv(gain, loss)
    IN  FSub(Flt(100), FDiv(Flt(100), FAdd(Flt(1), rs)))

get_enhanced_technical_indicators(df0) ==
    LET df    == sort_values(df0, TRUE)
        n     == Len(df)
        close == [i \in 1..n |-> df[i].close]
        closeF == [i \in 1..n |-> Flt(close[i])]
        pct   == [i \in 1..n |-> df[i].pct_chg]
        c4    == [i \in 1..n |-> close[i] * 10000]
        exp1  == Ewm(c4, Span12, n)
        exp2  == Ewm(c4, Span26, n)
        dif   == [i \in 1..n |-> exp1[i] - exp2[i]]
        dea   == Ewm(dif, Span9, n)
        gain  == gainCol(close)
        loss  == lossCol(close)
    IN  [i \in 1..n |->
            LET mid == RollingMean(closeF, W20, i)
                sd  == RollingStd(close, W20, i)
            IN  [trade_date |-> df[i].trade_date,
                 close      |-> closeF[i],
                 pct_chg    |-> Flt(pct[i]),
                 vol        |-> Flt(df[i].vol),
                 turnover_rate |-> df[i].turnover_rate,
                 ma5        |-> RollingMean(closeF, W5, i),
                 ma10       |-> RollingMean(closeF, W10, i),
                 ma20       |-> RollingMean(closeF, W20, i),
                 dif        |-> Num(dif[i], 10000),
                 dea        |-> Num(dea[i], 10000),
                 macd       |-> Num((dif[i] - dea[i]) * 2, 10000),
                 rsi        |-> rsiOf(RollingMean(gain, RsiWindow, i),
                                      RollingMean(loss, RsiWindow, i)),
                 bb_middle  |-> mid,
                 bb_upper   |-> FAdd(mid, FMul(Flt(BBK), sd)),
                 bb_lower   |-> FSub(mid, FMul(Flt(BBK), sd)),
                 volatility |-> RollingStd(pct, W20, i)]]

(***************************************************************************)
(* The data provider.  A call answers with a frame (possibly empty) or     *)
(* raises; NotCalled marks a call the request did not make.                *)
(***************************************************************************)
Raise == [st |-> "raise", rows |-> <<>>]
NotCalled == [st |-> "none", rows |-> <<>>]
Ok(rows) == [st |-> "ok", rows |-> rows]

\* a column the frame does not have
Absent == [k |-> "absent", n |-> 0, d |-> 1]

\* the i-th position of a frame of n rows holds the row of this trade date
Orders == {"asc", "desc", "rot"}
DateAt(o, n, i) ==
    CASE o = "asc"  -> i
      [] o = "desc" -> n + 1 - i
      [] o = "rot"  -> (i % n) + 1

\* close prices of the daily series, by trade date i of n
Patterns == {"flat", "up", "down", "zigzag", "stepup", "dipup", "bump"}
CloseAt(p, n, i) ==
    CASE p = "flat"     -> 10
      [] p = "up"       -> 10 + i
      [] p = "down"     -> 10 + (n - i)
      [] p = "zigzag"   -> 10 + (i % 2)
      [] p = "stepup"   -> IF i >= 2 THEN 11 ELSE 10
      [] p = "dipup"    -> IF i >= 2 /\ i < 10 THEN 10 ELSE 11
      [] p = "bump"     -> IF i = 3 THEN 12 ELSE 10

\* one daily bar; pct_chg in whole percent, turnover_rate tr
Bar(p, n, i, tr) ==
    [trade_date |-> i,
     close |-> CloseAt(p, n, i),
     pct_chg |-> IF i = 1 THEN 0 ELSE CloseAt(p, n, i) - CloseAt(p, n, i - 1),
     vol |-> 50000 + 1000 * i,
     turnover_rate |-> tr]

DailyFrame(p, n, o, tr) == [j \in 1..n |-> Bar(p, n, DateAt(o, n, j), tr)]

\* pro.daily / pro.hk_daily: hk_daily has no turnover column
DailyResponses(hk) ==
    {Raise} \cup
    {Ok(DailyFrame(p, n, o, tr)) :
        p \in Patterns, n \in 0..MaxBars, o \in Orders,
        tr \in IF hk THEN {Absent} ELSE {Absent, Num(15, 10)}}

\* pro.hk_indicator as get_clean_market_data reads it: the record of trade
\* date i has turnover rate i + 1/2, or a missing one
IndTurnoverFrames ==
    UNION {
      {[j \in 1..m |-> [trade_date |-> DateAt(o, m, j),
                         turnover_rate |-> tv[DateAt(o, m, j)]]] :
          tv \in [1..m -> {"v", "nan"}] \cup {[i \in 1..m |-> "absent"]},
          o \in {"asc", "desc"}} : m \in 0..MaxInd}

TurnoverOf(r) ==
    CASE r.turnover_rate = "v"      -> Num(2 * r.trade_date + 1, 2)
      [] r.turnover_rate = "nan"    -> NaN
      [] r.turnover_rate = "absent" -> Absent

IndTurnoverResponses == {Raise} \cup {Ok(f) : f \in IndTurnoverFrames}

(***************************************************************************)
(* get_clean_market_data                                                   *)
(***************************************************************************)
Err(msg) == [kind |-> "error", msg |-> msg]

\* f"{x}%": str() of the value
StrPct(x) ==
    CASE x.k = "absent" -> [fmt |-> "N/A%", val |-> 0]
      [] x.k = "nan"    -> [fmt |-> "nan%", val |-> 0]
      [] OTHER          -> [fmt |-> "str%", val |-> RoundDiv(x.n * 100, x.d)]

\* lines 141-150: the Hong-Kong turnover from the indicator source
HkTurnover(ind) ==
    IF ind.st = "raise" THEN NA
    ELSE IF empty(ind.rows) THEN NA
    ELSE LET latest_ind == sort_values(ind.rows, FALSE)[1]
         IN  IF latest_ind.turnover_rate # "absent"
             THEN StrPct(TurnoverOf(latest_ind))
             ELSE NA

\* a mutant of dfEmpty: the empty-series check is lost
dfEmptyNever(df) == FALSE

\* line 159: if df.empty
dfEmpty(df) == empty(df)

\* lines 164-184: the snapshot of the latest bar
Snapshot(latest, hk, turnover) ==
    [kind      |-> "ok",
     close     |-> [fmt |-> "str", val |-> RoundDiv(latest.close.n * 100, latest.close.d)],
     pct_chg   |-> F2(latest.pct_chg),
     vol       |-> F2(FDiv(latest.vol, Flt(10000))),
     turnover  |-> IF hk THEN turnover ELSE StrPct(latest.turnover_rate),
     ma5       |-> F2orNA(latest.ma5),
     ma10      |-> F2orNA(latest.ma10),
     ma20      |-> F2orNA(latest.ma20),
     macd      |-> F4orNA(latest.macd),
     rsi       |-> F2orNA(latest.rsi),
     bb_upper  |-> F2orNA(latest.bb_upper),
     bb_middle |-> F2orNA(latest.bb_middle),
     bb_lower  |-> F2orNA(latest.bb_lower),
     volatility |-> F4orNA(latest.volatility)]

\* lines 159-184, once the daily frame is fetched
MarketTail(hk, daily, ind, turnover, calls) ==
    IF dfEmpty(daily.rows)
    THEN [out |-> Err("no history"), calls |-> calls, df |-> <<>>,
          daily |-> daily, ind |-> ind]
    ELSE LET df == get_enhanced_technical_indicators(daily.rows)
         IN  [out |-> IF Len(df) = 0 THEN Err("market exception")
                      ELSE Snapshot(df[Len(df)], hk, turnover),
              calls |-> Append(calls, "get_enhanced_technical_indicators"),
              df |-> df, daily |-> daily, ind |-> ind]

\* the whole of get_clean_market_data(ts_code): hk is ts_code.endswith('.HK'),
\* pro whether get_tushare_pro() gave a client, daily and ind the provider's
\* answers to the bar fetch and to hk_indicator
MarketData(hk, pro, daily, ind) ==
    IF ~pro
    THEN [out |-> Err("token invalid"), calls |-> <<>>, df |-> <<>>,
          daily |-> NotCalled, ind |-> NotCalled]
    ELSE IF hk
    THEN IF daily.st = "raise"
         THEN [out |-> Err("hk interface exception"), calls |-> <<"hk_daily">>,
               df |-> <<>>, daily |-> daily, ind |-> NotCalled]
         ELSE MarketTail(hk, daily, ind, HkTurnover(ind),
                         <<"hk_daily", "hk_indicator">>)
    ELSE IF daily.st = "raise"
         THEN [out |-> Err("market exception"), calls |-> <<"daily">>,
               df |-> <<>>, daily |-> daily, ind |-> NotCalled]
         ELSE MarketTail(hk, daily, NotCalled, NA, <<"daily">>)

(***************************************************************************)
(* get_clean_fundamental_data                                              *)
(***************************************************************************)
Text(t) == [fmt |-> "text", val |-> t]
\* the industry sentinel of line 194
UnknownIndustry == [fmt |-> "unknown", val |-> 0]
\* the default of basic.iloc[0].get('industry', ...) on line 203
HKEquity == [fmt |-> "hk equity", val |-> 0]

\* a basic-info field as the code reads it: a text, a missing value, or no
\* such column
IndustryValues == {"text", "nan", "absent"}
BasicResponses ==
    {Raise, Ok(<<>>)} \cup {Ok(<<[industry |-> v]>>) : v \in IndustryValues}

\* a valuation field of the record of day t: present ("v") or missing
Presence == {"v", "nan"}
PeOf(r)  == IF r.pe_ttm = "v" THEN Num(1000 + 7 * r.day, 100) ELSE NaN
PbOf(r)  == IF r.pb = "v" THEN Num(10 + r.day, 8) ELSE NaN
\* mkt_cap of hk_indicator, in currency units
CapOf(r) == IF r.cap = "v" THEN Flt((3 * r.day + 1) * 12500000) ELSE NaN
\* total_mv of daily_basic, in ten-thousands
MvOf(r)  == IF r.cap = "v" THEN Flt((3 * r.day + 1) * 1250) ELSE NaN

ValuationRecords(t) ==
    {[day |-> t, trade_date |-> t, pe_ttm |-> a, pb |-> b, cap |-> c] :
        a \in Presence, b \in Presence, c \in Presence}

\* pro.hk_indicator(..., fields='pe_ttm,pb,mkt_cap'): up to MaxInd records of
\* distinct days in either order; dated tells whether the provider returned a
\* trade_date column although the fields asked for do not name it
IndValuationFrames ==
    UNION {
      {[dated |-> dt,
        rows |-> [j \in 1..m |-> recs[DateAt(o, m, j)]]] :
          recs \in {f \in [1..m -> UNION {ValuationRecords(t) : t \in 1..m}] :
                        \A t \in 1..m : f[t].day = t},
          o \in {"asc", "desc"}, dt \in BOOLEAN} : m \in 0..MaxInd}

IndValuationResponses ==
    {[st |-> "raise", rows |-> <<>>, dated |-> TRUE]} \cup
    {[st |-> "ok", rows |-> f.rows, dated |-> f.dated] : f \in IndValuationFrames}

\* daily_basic(ts_code, trade_date=t): no record or one; today is day 2 and
\* yesterday day 1
Today == 2
Yesterday == 1
DailyBasicResponses(t) == {Raise, Ok(<<>>)} \cup {Ok(<<r>>) : r \in ValuationRecords(t)}

Fund(pe, pb, mv, industry, hk) ==
    [kind |-> "ok", pe |-> pe, pb |-> pb, mv |-> mv, industry |-> industry,
     note |-> IF hk THEN "hk vip source" ELSE "a share"]

\* lines 200-204: the Hong-Kong industry
HkIndustry(basic) ==
    IF basic.st = "raise" THEN UnknownIndustry
    ELSE IF empty(basic.rows) THEN UnknownIndustry
    ELSE LET v == basic.rows[1].industry
         IN  CASE v = "absent" -> HKEquity
               [] v = "nan"    -> [fmt |-> "nan", val |-> 0]
               [] OTHER        -> Text("industry")

\* lines 207-224: the Hong-Kong valuation, [pe, pb, mv]
HkValuation(ind) ==
    LET na == [pe |-> NA, pb |-> NA, mv |-> NA]
    IN  IF ind.st = "raise" THEN na
        ELSE IF empty(ind.rows) THEN na
        \* sort_values('trade_date') on a frame without the column: KeyError
        ELSE IF ~ind.dated THEN na
        ELSE LET r == sort_values(ind.rows, FALSE)[1]
             IN  [pe |-> IF notna(PeOf(r)) THEN F2(PeOf(r)) ELSE NA,
                  pb |-> IF notna(PbOf(r)) THEN F2(PbOf(r)) ELSE NA,
                  mv |-> IF notna(CapOf(r))
                         THEN F2(FDiv(CapOf(r), Flt(100000000))) ELSE NA]

\* a mutant of needYesterday: yesterday is queried whatever today holds
needYesterdayAlways(db) == TRUE

\* line 233: if db.empty
needYesterday(db) == empty(db.rows)

\* lines 231-239: the mainland valuation, [pe, pb, mv, calls]
AValuation(today, yesterday) ==
    LET na == [pe |-> NA, pb |-> NA, mv |-> NA]
    IN  IF today.st = "raise"
        THEN na @@ [calls |-> <<"daily_basic today">>, yesterday |-> NotCalled]
        ELSE IF needYesterday(today) /\ yesterday.st = "raise"
        THEN na @@ [calls |-> <<"daily_basic today", "daily_basic yesterday">>,
                    yesterday |-> yesterday]
        ELSE LET db == IF needYesterday(today) THEN yesterday ELSE today
                 cs == IF needYesterday(today)
                       THEN <<"daily_basic today", "daily_basic yesterday">>
                       ELSE <<"daily_basic today">>
                 y  == IF needYesterday(today) THEN yesterday ELSE NotCalled
             IN  IF empty(db.rows) THEN na @@ [calls |-> cs, yesterday |-> y]
                 ELSE LET r == db.rows[1]
                      IN  [pe |-> IF notna(PeOf(r)) THEN F2(PeOf(r)) ELSE NA,
                           pb |-> IF notna(PbOf(r)) THEN F2(PbOf(r)) ELSE NA,
                           mv |-> IF notna(MvOf(r))
                                  THEN F2(FDiv(MvOf(r), Flt(10000))) ELSE NA,
                           calls |-> cs, yesterday |-> y]

\* the whole of get_clean_fundamental_data(ts_code): basic is the answer of
\* hk_basic / stock_basic, ind of hk_indicator, today and yesterday of the
\* two daily_basic queries
FundamentalData(hk, pro, basic, ind, today, yesterday) ==
    IF ~pro
    THEN [out |-> Err("token invalid"), calls |-> <<>>, basic |-> NotCalled,
          ind |-> NotCalled, today |-> NotCalled, yesterday |-> NotCalled]
    ELSE IF hk
    THEN LET v == HkValuation(ind)
         IN  [out |-> Fund(v.pe, v.pb, v.mv, HkIndustry(basic), hk),
              calls |-> <<"hk_basic", "hk_indicator">>, basic |-> basic,
              ind |-> ind, today |-> NotCalled, yesterday |-> NotCalled]
    ELSE IF basic.st = "raise"
            \/ (~empty(basic.rows) /\ basic.rows[1].industry = "absent")
    \* line 228 / 229 raise outside any inner try: the outer handler at 248
    THEN [out |-> Err("fundamental exception"), calls |-> <<"stock_basic">>,
          basic |-> basic, ind |-> NotCalled, today |-> NotCalled,
          yesterday |-> NotCalled]
    ELSE LET industry == IF empty(basic.rows) THEN UnknownIndustry
                         ELSE IF basic.rows[1].industry = "nan"
                         THEN [fmt |-> "nan", val |-> 0]
                         ELSE Text("industry")
             v == AValuation(today, yesterday)
         IN  [out |-> Fund(v.pe, v.pb, v.mv, industry, hk),
              calls |-> <<"stock_basic">> \o v.calls, basic |-> basic,
              ind |-> NotCalled, today |-> today, yesterday |-> v.yesterday]

(***************************************************************************)
(* get_market_environment_data                                             *)
(***************************************************************************)
\* pct_chg of the benchmark's first row, in thousandths of a percent
ChangeValues ==
    {Num(c, 1000) : c \in {-2500, -1010, -1004, -1000, -996, 0,
                           996, 1000, 1004, 1010, 2500}} \cup {NaN}

IndexResponses ==
    {Raise, Ok(<<>>)} \cup
    {Ok(<<[pct_chg |-> c]>>) : c \in ChangeValues} \cup
    {Ok(<<[pct_chg |-> c], [pct_chg |-> Flt(0)]>>) : c \in ChangeValues}

\* a mutant of Sentiment: the boundary counted as optimistic / pessimistic
SentimentInclusive(change) ==
    IF ~FLt(change, Flt(1)) /\ notna(change) THEN "optimistic"
    ELSE IF ~FGt(change, Flt(-1)) /\ notna(change) THEN "pessimistic"
    ELSE "neutral"

\* line 272
Sentiment(change) ==
    IF FGt(change, Flt(1)) THEN "optimistic"
    ELSE IF FLt(change, Flt(-1)) THEN "pessimistic"
    ELSE "neutral"

\* a mutant of EnvDefault: the default of a flat, neutral market
EnvDefaultNeutral == [kind |-> "ok", change |-> F2(Flt(0)), sentiment |-> "neutral"]

\* line 276
EnvDefault == [kind |-> "ok", change |-> NA, sentiment |-> "unknown"]

\* lines 270-273
EnvOf(df0) ==
    IF ~empty(df0)
    THEN LET change == df0[1].pct_chg
         IN  [kind |-> "ok", change |-> F2(change), sentiment |-> Sentiment(change)]
    ELSE EnvDefault

\* the whole of get_market_environment_data(ts_code): first is the answer to
\* the index_daily call of line 262, second to the fallback call of line 266
\* or 268, whichever is made first, third to the call of line 268 made after
\* the call of line 266 raised
EnvData(hk, pro, first, second, third) ==
    LET index_code == IF hk THEN "HSI" ELSE "399300.SZ" IN
    IF ~pro
    \* pro is None: both calls raise AttributeError, the outer handler returns
    THEN [out |-> EnvDefault, calls |-> <<>>, first |-> NotCalled,
          second |-> NotCalled, third |-> NotCalled]
    ELSE IF first.st = "raise"
    THEN IF second.st = "raise"
         THEN [out |-> EnvDefault, calls |-> <<index_code, "399300.SZ">>,
               first |-> first, second |-> second, third |-> NotCalled]
         ELSE [out |-> EnvOf(second.rows), calls |-> <<index_code, "399300.SZ">>,
               first |-> first, second |-> second, third |-> NotCalled]
    ELSE IF empty(first.rows) /\ hk
    THEN IF second.st = "raise"
         \* line 266 raises inside the try: line 268 calls once more
         THEN [out |-> IF third.st = "raise" THEN EnvDefault ELSE EnvOf(third.rows),
               calls |-> <<index_code, "399300.SZ", "399300.SZ">>,
               first |-> first, second |-> second, third |-> third]
         ELSE [out |-> EnvOf(second.rows), calls |-> <<index_code, "399300.SZ">>,
               first |-> first, second |-> second, third |-> NotCalled]
    ELSE [out |-> EnvOf(first.rows), calls |-> <<index_code>>,
          first |-> first, second |-> NotCalled, third |-> NotCalled]

(***************************************************************************)
(* State: the last request served.  Every request builds its frames and    *)
(* its result afresh and the module keeps nothing between requests, so a   *)
(* behaviour is one request from the idle state.                           *)
(***************************************************************************)
VARIABLES
    op,     \* the function called, "idle" before the call
    inp,    \* its arguments and the provider's answers to the calls it made
    calls,  \* the provider calls and engine invocations made, in order
    df,     \* the frame get_enhanced_technical_indicators returned, if called
    out     \* the mapping returned

vars == <<op, inp, calls, df, out>>

Init ==
    /\ op = "idle"
    /\ inp = [hk |-> FALSE, pro |-> FALSE]
    /\ calls = <<>>
    /\ df = <<>>
    /\ out = [kind |-> "none"]

get_clean_market_data ==
    /\ op = "idle"
    /\ \E hk \in BOOLEAN, pro \in BOOLEAN :
        \E daily \in IF pro THEN DailyResponses(hk) ELSE {NotCalled} :
        \E ind \in IF pro /\ hk /\ daily.st = "ok"
                   THEN IndTurnoverResponses ELSE {NotCalled} :
        \E r \in {MarketData(hk, pro, daily, ind)} :
            /\ op' = "get_clean_market_data"
            /\ inp' = [hk |-> hk, pro |-> pro, daily |-> r.daily, ind |-> r.ind]
            /\ calls' = r.calls
            /\ df' = r.df
            /\ out' = r.out

get_clean_fundamental_data ==
    /\ op = "idle"
    /\ \E hk \in BOOLEAN, pro \in BOOLEAN :
        \E basic \in IF pro THEN BasicResponses ELSE {NotCalled} :
        \E ind \in IF pro /\ hk THEN IndValuationResponses ELSE {NotCalled} :
        \E today \in IF pro /\ ~hk THEN DailyBasicResponses(Today) ELSE {NotCalled} :
        \E yesterday \in IF pro /\ ~hk /\ today.st = "ok"
                         THEN DailyBasicResponses(Yesterday) ELSE {NotCalled} :
        \E r \in {FundamentalData(hk, pro, basic, ind, today, yesterday)} :
            /\ op' = "get_clean_fundamental_data"
            /\ inp' = [hk |-> hk, pro |-> pro, basic |-> r.basic, ind |-> r.ind,
                       today |-> r.today, yesterday |-> r.yesterday]
            /\ calls' = r.calls
            /\ df' = <<>>
            /\ out' = r.out

get_market_environment_data ==
    /\ op = "idle"
    /\ \E hk \in BOOLEAN, pro \in BOOLEAN :
        \E first \in IF pro THEN IndexResponses ELSE {NotCalled} :
        \E second \in IF pro /\ (first.st = "raise" \/ (hk /\ empty(first.rows)))
                      THEN IndexResponses ELSE {NotCalled} :
        \E third \in IF pro /\ hk /\ first.st = "ok" /\ second.st = "raise"
                     THEN IndexResponses ELSE {NotCalled} :
        \E r \in {EnvData(hk, pro, first, second, third)} :
            /\ op' = "get_market_environment_data"
            /\ inp' = [hk |-> hk, pro |-> pro, first |-> r.first,
                       second |-> r.second, third |-> r.third]
            /\ calls' = r.calls
            /\ df' = <<>>
            /\ out' = r.out

Next ==
    \/ get_clean_market_data
    \/ get_clean_fundamental_data
    \/ get_market_environment_data

Spec == Init /\ [][Next]_vars

(***************************************************************************)
(* Properties                                                              *)
(***************************************************************************)
IsMarket == op = "get_clean_market_data"
IsFund == op = "get_clean_fundamental_data"
IsEnv == op = "get_market_environment_data"

\* the daily frame was fetched and holds at least one bar
HasBars == IsMarket /\ inp.pro /\ inp.daily.st = "ok" /\ Len(inp.daily.rows) >= 1
NBars == Len(inp.daily.rows)

\* the indicator records of the market request that carry a turnover rate
TurnoverHits == {j \in 1..Len(inp.ind.rows) : inp.ind.rows[j].turnover_rate = "v"}
NewestOf(rows, J) == CHOOSE j \in J : \A k \in J : rows[k].trade_date <= rows[j].trade_date

\* C1: for a Hong-Kong instrument with a non-empty daily series the turnover
\* field is the turnover rate of the newest indicator record that has one,
\* "N/A" when no record has one, and a failed indicator fetch does not abort
\* the snapshot.
C1_HkTurnoverNewestNonMissing ==
    (HasBars /\ inp.hk) =>
        /\ out.kind = "ok"
        /\ IF inp.ind.st = "ok" /\ TurnoverHits # {}
           THEN LET r == inp.ind.rows[NewestOf(inp.ind.rows, TurnoverHits)]
                IN  out.turnover = [fmt |-> "str%", val |-> 100 * r.trade_date + 50]
           ELSE out.turnover = NA

\* the benchmark change the classification was made from: the first row of
\* the last frame fetched
UsedFrame ==
    IF inp.third.st # "none" THEN inp.third
    ELSE IF inp.second.st # "none" THEN inp.second
    ELSE inp.first
HasChange == IsEnv /\ inp.pro /\ UsedFrame.st = "ok" /\ Len(UsedFrame.rows) >= 1
UsedChange == UsedFrame.rows[1].pct_chg

\* C2: the sentiment is optimistic iff the change is above 1, pessimistic
\* iff it is below -1 and neutral otherwise; 1.00 and -1.00 are neutral.
C2_SentimentThresholds ==
    HasChange =>
        LET c == UsedChange
            above == c.k = "num" /\ c.n > c.d
            below == c.k = "num" /\ c.n < -c.d
        IN  /\ (out.sentiment = "optimistic") <=> above
            /\ (out.sentiment = "pessimistic") <=> below
            /\ (out.sentiment = "neutral") <=> (~above /\ ~below)

C2_Witness ==
    /\ HasChange /\ UsedChange = Flt(1) /\ out.sentiment = "neutral"
    /\ out.change = [fmt |-> ".2f", val |-> 100]

\* no benchmark data at all: no client, or every fetch made raised or came
\* back empty
NoData(r) == r.st = "raise" \/ (r.st = "ok" /\ Len(r.rows) = 0)
NoBenchmark ==
    /\ IsEnv
    /\ \/ ~inp.pro
       \/ /\ NoData(inp.first)
          /\ inp.second.st = "none" \/ NoData(inp.second)
          /\ inp.third.st = "none" \/ NoData(inp.third)

ValuationFailed ==
    \/ inp.ind.st = "raise"
    \/ inp.today.st = "raise"
    \/ inp.yesterday.st = "raise"

\* C4: in get_clean_fundamental_data a failure of one resolver path degrades
\* only its own fields: the result is never an error mapping because one
\* fetch failed, a failed valuation fetch leaves "N/A" valuation beside the
\* industry, a failed basic-info fetch leaves the unknown industry beside
\* the valuation.
C4_FieldIndependence ==
    (IsFund /\ inp.pro) =>
        /\ out.kind = "ok"
        /\ ValuationFailed => (out.pe = NA /\ out.pb = NA /\ out.mv = NA)
        /\ inp.basic.st = "raise" => out.industry = UnknownIndustry

\* C5: for a non-empty daily series in any order the snapshot is that of the
\* most recent bar, with MA5 "N/A" under 5 bars, MA10 under 10, RSI under 14,
\* MA20, the Bollinger bands and the volatility under 20, and the call
\* returns a snapshot, not an error mapping.
C5_ShortSeriesSentinels ==
    HasBars =>
        /\ out.kind = "ok"
        /\ \E j \in 1..NBars :
            /\ \A k \in 1..NBars :
                inp.daily.rows[k].trade_date <= inp.daily.rows[j].trade_date
            /\ out.close = [fmt |-> "str", val |-> 100 * inp.daily.rows[j].close]
        /\ NBars < 5 => out.ma5 = NA
        /\ NBars < 10 => out.ma10 = NA
        /\ NBars < 14 => out.rsi = NA
        /\ NBars < 20 =>
            /\ out.ma20 = NA
            /\ out.bb_upper = NA /\ out.bb_middle = NA /\ out.bb_lower = NA
            /\ out.volatility = NA

C5_Witness ==
    /\ HasBars /\ NBars = 13
    /\ inp.daily.rows[1].trade_date > inp.daily.rows[2].trade_date
    /\ out.kind = "ok" /\ out.rsi = NA /\ out.ma20 = NA
    /\ out.ma10 # NA /\ out.ma5 # NA

\* the day-over-day close delta of row j >= 2 of the sorted frame
DeltaAt(j) == (df[j].close.n * df[j - 1].close.d - df[j - 1].close.n * df[j].close.d)
RECURSIVE GainSum(_, _)
GainSum(lo, hi) ==
    IF lo > hi THEN 0
    ELSE (IF DeltaAt(hi) > 0 THEN DeltaAt(hi) ELSE 0) + GainSum(lo, hi - 1)
RECURSIVE LossSum(_, _)
LossSum(lo, hi) ==
    IF lo > hi THEN 0
    ELSE (IF DeltaAt(hi) < 0 THEN -DeltaAt(hi) ELSE 0) + LossSum(lo, hi - 1)
\* the first delta of the trailing window of row i
WinLo(i) == IF i - 13 < 2 THEN 2 ELSE i - 13

\* C6: the RSI of every bar is, when defined, within [0, 100], and is
\* exactly 100 when the trailing losses are zero and the gains positive.
C6_RsiRange ==
    IsMarket =>
        \A i \in 1..Len(df) :
            /\ notna(df[i].rsi) =>
                /\ df[i].rsi.k = "num"
                /\ 0 <= df[i].rsi.n /\ df[i].rsi.n <= 100 * df[i].rsi.d
            /\ (i >= 14 /\ LossSum(WinLo(i), i) = 0 /\ GainSum(WinLo(i), i) > 0)
                => df[i].rsi = Flt(100)

C6_Witness ==
    /\ IsMarket /\ Len(df) >= 16
    /\ \E i \in 15..Len(df) :
        /\ LossSum(WinLo(i), i) = 0 /\ GainSum(WinLo(i), i) > 0
        /\ df[i].rsi = Flt(100)
    /\ \E i \in 15..Len(df) :
        /\ notna(df[i].rsi) /\ df[i].rsi.n > 0 /\ df[i].rsi.n < 100 * df[i].rsi.d
    /\ out.rsi = [fmt |-> ".2f", val |-> 10000]

\* the valuation records of the Hong-Kong request with P/E or market cap
Qualifying ==
    {j \in 1..Len(inp.ind.rows) :
        inp.ind.rows[j].pe_ttm = "v" \/ inp.ind.rows[j].cap = "v"}

\* C7: the Hong-Kong valuation is that of the newest indicator record in
\* which P/E or market cap is present; newer records with neither are
\* skipped.  Stated for the frames that carry their trade dates.
C7_HkValuationNewestQualifying ==
    (IsFund /\ inp.pro /\ inp.hk /\ inp.ind.st = "ok" /\ inp.ind.dated
        /\ Qualifying # {}) =>
        LET r == inp.ind.rows[NewestOf(inp.ind.rows, Qualifying)]
        IN  /\ out.kind = "ok"
            /\ out.pe = F2orNA(PeOf(r))
            /\ out.pb = F2orNA(PbOf(r))
            /\ out.mv = F2orNA(FDiv(CapOf(r), Flt(100000000)))

\* C8: without the price series (no client, the bar fetch raised, zero
\* bars) the call returns an error mapping and the indicator engine is not
\* invoked; the engine runs only after a non-empty series was fetched.
C8_NoDataNoIndicators ==
    IsMarket =>
        /\ (~inp.pro \/ NoData(inp.daily)) =>
            /\ out.kind = "error"
            /\ \A i \in 1..Len(calls) : calls[i] # "get_enhanced_technical_indicators"
            /\ df = <<>>
        /\ \A i \in 1..Len(calls) :
            calls[i] = "get_enhanced_technical_indicators" =>
                /\ i > 1 /\ calls[1] \in {"daily", "hk_daily"}
                /\ inp.daily.st = "ok" /\ Len(inp.daily.rows) >= 1

C8_Witness ==
    /\ IsMarket /\ inp.pro /\ inp.hk
    /\ inp.daily.st = "ok" /\ Len(inp.daily.rows) = 0
    /\ calls = <<"hk_daily", "hk_indicator">>
    /\ out = Err("no history")

Called(c) == \E i \in 1..Len(calls) : calls[i] = c
ValuationOf(r) ==
    [pe |-> F2orNA(PeOf(r)), pb |-> F2orNA(PbOf(r)),
     mv |-> F2orNA(FDiv(MvOf(r), Flt(10000)))]
OutValuation == [pe |-> out.pe, pb |-> out.pb, mv |-> out.mv]

C10_RsiNeeds14Deltas ==
    IsMarket => \A i \in 1..Len(df) : i <= 14 => ~notna(df[i].rsi)

====
